---- MODULE Spec2Model ----
(***************************************************************************)
(* SamparkX: the vector retrieval engine (app/rag/vector_store.py).        *)
(*                                                                         *)
(* One VectorStore object (dimension, index, chunks, metadata), the        *)
(* directory it is saved to and loaded from, and the calls made on it.     *)
(* Numbers are integers: a vector component c stands for c/10 and a        *)
(* distance D for D/100, so that [1,0,0] is <<10,0,0>>, [0.9,0.1,0] is     *)
(* <<9,1,0>> and the squared Euclidean distance 0.02 is 2.                 *)
(***************************************************************************)
EXTENDS Integers, Sequences, FiniteSets, TLC

VARIABLES
    dimension,  \* self.dimension: the dimension given to __init__
    index,      \* self.index: the faiss.IndexFlatL2, [d, vecs]
    chunks,     \* self.chunks
    metadata,   \* self.metadata
    disk,       \* per path: the files index.faiss and data.pkl
    last,       \* the last call made and how it ended
    wrote,      \* history: per path and file, the store that the save
                \* call that last wrote the file was saving
    vector_store,   \* the global _vector_store of app/rag/retrieve.py:
                    \* None, or the number of a store of objs
    objs,       \* the stores that get_vector_store has constructed
    pc,         \* per caller of get_vector_store: where its call is
    loads       \* history: the load calls get_vector_store has made

vars == <<dimension, index, chunks, metadata, disk, last, wrote,
          vector_store, objs, pc, loads>>

store == <<dimension, index, chunks, metadata>>

\* the state of the retrieval module (app/rag/retrieve.py)
proc == <<vector_store, objs, pc, loads>>

\* _vector_store = None
None == 0

\* the concurrent callers of get_vector_store
Callers == {1, 2}

\* a caller that has not called
Idle == [at |-> "idle", org |-> "", ret |-> None]

\* the retrieval module as imported: no store yet, nobody calling
Imported ==
    /\ vector_store = None
    /\ objs = <<>>
    /\ pc = [t \in Callers |-> Idle]
    /\ loads = 0

---------------------------------------------------------------------------
(* Bounds of the model *)

\* add_documents is called with lists of at most MaxSize elements, and not
\* once chunks, metadata or the index would grow beyond MaxSize
MaxSize == 2

---------------------------------------------------------------------------
(* The values calls are made with *)

\* the documents' entries: entry e has a chunk text, a metadata record and,
\* for each embedding dimension, an embedding
Entries == {1, 2}

\* the embedding dimensions in use
Dims == {2, 3}

\* the directories passed to save and load
Paths == {"vector_store"}

ChunkText(e) ==
    IF e = 1 THEN "A office hours 9-5" ELSE "B contact support@x.com"

MetaOf(e) == [source |-> "kb.txt", chunk_index |-> e - 1]

\* entry 1 embeds to [1,0,..], entry 2 to [0,1,..]
Embedding(e, d) == [i \in 1..d |-> IF i = e THEN 10 ELSE 0]

\* the query vectors search is called with
Queries == { <<9, 1, 0>>, <<9, 1>> }

\* further query vectors, for what search would return in a state
Probes == Queries \cup { <<0, 10, 0>>, <<5, 5, 0>>, <<0, 10>>, <<5, 5>> }

\* the k search is called with: below, at and above the store's size
Ks == 0..(MaxSize + 1)

Max3(a, b, c) ==
    IF a >= b /\ a >= c THEN a ELSE IF b >= c THEN b ELSE c

---------------------------------------------------------------------------
(* faiss.IndexFlatL2 *)

\* faiss.IndexFlatL2(dimension): an empty flat index of dimension d
IndexFlatL2(d) == [d |-> d, vecs |-> <<>>]

ntotal(ix) == Len(ix.vecs)

\* the distance IndexFlatL2 ranks by: squared Euclidean
RECURSIVE SumSq(_, _, _)
SumSq(x, y, i) ==
    IF i = 0 THEN 0
    ELSE (x[i] - y[i]) * (x[i] - y[i]) + SumSq(x, y, i - 1)

L2Sqr(x, y) == SumSq(x, y, Len(x))

\* the distance faiss reports in a result slot it could not fill
FLT_MAX == 2147483647

\* 0-based label of the stored vector ranked r-th (1-based) for query q:
\* by distance, equal distances by insertion order
Rank(ix, q, i) ==
    Cardinality({ j \in 1..ntotal(ix) :
        \/ L2Sqr(q, ix.vecs[j]) < L2Sqr(q, ix.vecs[i])
        \/ L2Sqr(q, ix.vecs[j]) = L2Sqr(q, ix.vecs[i]) /\ j < i }) + 1

Nearest(ix, q, r) == CHOOSE i \in 1..ntotal(ix) : Rank(ix, q, i) = r

\* index.search(x, k) for one query row: k (distance, label) slots, nearest
\* first, the slots beyond ntotal filled with (FLT_MAX, -1)
IndexSearch(ix, q, k) ==
    [r \in 1..k |->
        IF r <= ntotal(ix)
        THEN [dist |-> L2Sqr(q, ix.vecs[Nearest(ix, q, r)]),
              idx |-> Nearest(ix, q, r) - 1]
        ELSE [dist |-> FLT_MAX, idx |-> -1]]

\* faiss.write_index: the file holds d, ntotal and the vectors as one
\* flat array of ntotal * d numbers
RECURSIVE Flatten(_)
Flatten(vs) == IF vs = <<>> THEN <<>> ELSE Head(vs) \o Flatten(Tail(vs))

WriteIndex(ix) ==
    [exists |-> TRUE,
     content |-> <<[d |-> ix.d, ntotal |-> ntotal(ix), xb |-> Flatten(ix.vecs)]>>]

ReadIndexReversed(f) ==
    LET h == f.content[1]
    IN  [d |-> h.d,
         vecs |-> [i \in 1..h.ntotal |->
                     SubSeq(h.xb, (h.ntotal - i) * h.d + 1,
                            (h.ntotal - i + 1) * h.d)]]

\* faiss.read_index: a new index rebuilt from the file
ReadIndex(f) ==
    LET h == f.content[1]
    IN  [d |-> h.d,
         vecs |-> [i \in 1..h.ntotal |->
                     SubSeq(h.xb, (i - 1) * h.d + 1, i * h.d)]]

---------------------------------------------------------------------------
(* Files *)

\* a file of a directory: whether os.path.exists finds it, and the objects
\* written to it
NoFile == [exists |-> FALSE, content |-> <<>>]

File(obj) == [exists |-> TRUE, content |-> <<obj>>]

\* a data.pkl that open(.., 'wb') has created or truncated and that
\* pickle.dump did not fill
Truncated == [exists |-> TRUE, content |-> <<>>]

\* pickle.dump({'chunks': .., 'metadata': ..}, f)
PickleDump(cs, ms) == File([chunks |-> cs, metadata |-> ms])

\* pickle.load(f): the object written; EOFError on a file holding none
PickleLoads(f) == f.content # <<>>

PickleLoad(f) == f.content[1]

\* what `last` records of a call: the operation, how it ended ("ok", or
\* "raise" when an exception left the call), a summary of its arguments
\* and the value returned
Call(op, out, arg, res) == [op |-> op, out |-> out, arg |-> arg, res |-> res]

---------------------------------------------------------------------------
(* VectorStore *)

\* __init__(dimension)
Construct(d) ==
    /\ dimension' = d
    /\ index' = IndexFlatL2(d)
    /\ chunks' = <<>>
    /\ metadata' = <<>>
    /\ last' = Call("__init__", "ok", d, <<>>)
    /\ UNCHANGED <<disk, wrote, proc>>

\* np.array(embeddings).astype('float32') gives a 2-D array only when all
\* the vectors have one length; a ragged list raises ValueError
Ragged(es) == \E i, j \in DOMAIN es : Len(es[i]) # Len(es[j])

\* what `last` keeps of the arguments of add_documents
AddArg(cs, es, ms) ==
    [n |-> Len(es),
     sameLen |-> Len(cs) = Len(es) /\ Len(ms) = Len(es),
     dimOK |-> \A i \in DOMAIN es : Len(es[i]) = dimension]

\* index.add(embeddings_np) asserts that the rows have the index's d
IndexAddAccepts(ix, es) == Len(es[1]) = ix.d

AddDocumentsNoEmptyTest(cs, es, ms) ==
    IF es = <<>> \/ Ragged(es) \/ ~IndexAddAccepts(index, es)
    THEN /\ last' = Call("add_documents", "raise", AddArg(cs, es, ms), <<>>)
         /\ UNCHANGED <<store, disk, wrote, proc>>
    ELSE /\ index' = [index EXCEPT !.vecs = @ \o es]
         /\ chunks' = chunks \o cs
         /\ metadata' = metadata \o ms
         /\ last' = Call("add_documents", "ok", AddArg(cs, es, ms), <<>>)
         /\ UNCHANGED <<dimension, disk, wrote, proc>>

AddDocumentsPrepend(cs, es, ms) ==
    IF es = <<>>
    THEN /\ last' = Call("add_documents", "ok", AddArg(cs, es, ms), <<>>)
         /\ UNCHANGED <<store, disk, wrote, proc>>
    ELSE IF Ragged(es) \/ ~IndexAddAccepts(index, es)
    THEN /\ last' = Call("add_documents", "raise", AddArg(cs, es, ms), <<>>)
         /\ UNCHANGED <<store, disk, wrote, proc>>
    ELSE /\ index' = [index EXCEPT !.vecs = es \o @]
         /\ chunks' = cs \o chunks
         /\ metadata' = ms \o metadata
         /\ last' = Call("add_documents", "ok", AddArg(cs, es, ms), <<>>)
         /\ UNCHANGED <<dimension, disk, wrote, proc>>

\* add_documents(chunks, embeddings, metadata)
AddDocuments(cs, es, ms) ==
    IF es = <<>>
    THEN \* "No embeddings to add": return
         /\ last' = Call("add_documents", "ok", AddArg(cs, es, ms), <<>>)
         /\ UNCHANGED <<store, disk, wrote, proc>>
    ELSE IF Ragged(es) \/ ~IndexAddAccepts(index, es)
    THEN \* np.array raises ValueError, or index.add raises AssertionError
         /\ last' = Call("add_documents", "raise", AddArg(cs, es, ms), <<>>)
         /\ UNCHANGED <<store, disk, wrote, proc>>
    ELSE /\ index' = [index EXCEPT !.vecs = @ \o es]
         /\ chunks' = chunks \o cs
         /\ metadata' = metadata \o ms
         /\ last' = Call("add_documents", "ok", AddArg(cs, es, ms), <<>>)
         /\ UNCHANGED <<dimension, disk, wrote, proc>>

\* chunks[idx] and metadata[idx] of a Python list: a negative idx counts
\* from the end, an idx outside the list raises IndexError
InList(l, idx) == -Len(l) <= idx /\ idx < Len(l)

ListAt(l, idx) == IF idx >= 0 THEN l[idx + 1] ELSE l[Len(l) + idx + 1]

\* the guard of the result loop: `if idx < len(self.chunks)`
Kept(hits, cs) == SelectSeq(hits, LAMBDA h : h.idx < Len(cs))

\* min(k, len(self.chunks))
Min(a, b) == IF a < b THEN a ELSE b

\* index.search(query_np, kk) asserts d == self.d and k > 0
IndexSearchAccepts(ix, q, kk) == Len(q) = ix.d /\ kk > 0

SearchInNoEmptyTest(ix, cs, ms, q, k) ==
    IF ~IndexSearchAccepts(ix, q, Min(k, Len(cs)))
    THEN [out |-> "raise", res |-> <<>>]
    ELSE [out |-> "ok", res |-> <<>>]

\* search(query_embedding, k) on a store holding ix, cs, ms: how the call
\* ends and what it returns
SearchIn(ix, cs, ms, q, k) ==
    IF Len(cs) = 0
    THEN \* "Vector store is empty"
         [out |-> "ok", res |-> <<>>]
    ELSE IF ~IndexSearchAccepts(ix, q, Min(k, Len(cs)))
    THEN [out |-> "raise", res |-> <<>>]
    ELSE LET hits == Kept(IndexSearch(ix, q, Min(k, Len(cs))), cs)
         IN  IF \E r \in DOMAIN hits : ~InList(ms, hits[r].idx)
             THEN \* metadata[idx] raises IndexError
                  [out |-> "raise", res |-> <<>>]
             ELSE [out |-> "ok",
                   res |-> [r \in DOMAIN hits |->
                              <<ListAt(cs, hits[r].idx),
                                ListAt(ms, hits[r].idx),
                                hits[r].dist>>]]

\* a query cut or zero-padded to d components
Fit(q, d) == [i \in 1..d |-> IF i <= Len(q) THEN q[i] ELSE 0]

SearchPadded(q, k) == SearchIn(index, chunks, metadata, Fit(q, index.d), k)

Search(q, k) == SearchIn(index, chunks, metadata, q, k)

DoSearch(q, k) ==
    /\ last' = Call("search", Search(q, k).out, <<q, k>>, Search(q, k).res)
    /\ UNCHANGED <<store, disk, wrote, proc>>

\* the store a save call is saving
StoreOf(d, ix, cs, ms) ==
    [valid |-> TRUE, dimension |-> d, index |-> ix, chunks |-> cs,
     metadata |-> ms]

NotSaved ==
    [valid |-> FALSE, dimension |-> 0, index |-> IndexFlatL2(0),
     chunks |-> <<>>, metadata |-> <<>>]

Saving == StoreOf(dimension, index, chunks, metadata)

\* the directory after each statement of save that writes to it:
\* faiss.write_index (line 101), open(.., 'wb') (line 104) and pickle.dump
\* (line 105)
AfterWriteIndex(dir) == [dir EXCEPT !.index = WriteIndex(index)]

AfterOpen(dir) == [dir EXCEPT !.data = Truncated]

AfterDump(dir) == [dir EXCEPT !.data = PickleDump(chunks, metadata)]

\* the directory a save leaves when it stops right after the statement `at`
\* ("index", "open"), and when it returns ("dump")
SaveUpTo(dir, at) ==
    IF at = "index" THEN AfterWriteIndex(dir)
    ELSE IF at = "open" THEN AfterOpen(AfterWriteIndex(dir))
    ELSE AfterDump(AfterOpen(AfterWriteIndex(dir)))

WroteUpTo(w, at) ==
    [index |-> Saving,
     data |-> IF at = "index" THEN w.data
              ELSE IF at = "open" THEN NotSaved
              ELSE Saving]

\* save(path), from its first statement to its return
Save(p) ==
    /\ disk' = [disk EXCEPT ![p] = SaveUpTo(@, "dump")]
    /\ wrote' = [wrote EXCEPT ![p] = WroteUpTo(@, "dump")]
    /\ last' = Call("save", "ok", p, <<>>)
    /\ UNCHANGED <<store, proc>>

\* save(path) stopped after the statement `at` by an I/O error, which
\* leaves the call as an exception (how = "raise"), or by the end of the
\* process (how = "crash"), after which a new process constructs its store
SaveInterrupted(p, at, how, d) ==
    /\ disk' = [disk EXCEPT ![p] = SaveUpTo(@, at)]
    /\ wrote' = [wrote EXCEPT ![p] = WroteUpTo(@, at)]
    /\ last' = Call("save", how, p, at)
    /\ IF how = "crash"
       THEN /\ dimension' = d
            /\ index' = IndexFlatL2(d)
            /\ chunks' = <<>>
            /\ metadata' = <<>>
       ELSE UNCHANGED store
    /\ UNCHANGED proc

\* the store whose complete snapshot is at the path, if there is one: both
\* files written by save calls that were saving the same store
saved ==
    [p \in Paths |->
        IF wrote[p].index = wrote[p].data THEN wrote[p].data ELSE NotSaved]

\* the store as __init__ leaves it
Fresh == index = IndexFlatL2(dimension) /\ chunks = <<>> /\ metadata = <<>>

\* what `last` keeps of a load: whether both files were found, and whether
\* the store was fresh when load was called
LoadRes(found) == [found |-> found, fresh |-> Fresh]

FoundIndexOnly(dir) == dir.index.exists

\* the existence test of load
Found(dir) == dir.index.exists /\ dir.data.exists

LoadedChunksMerged(f) == chunks \o PickleLoad(f).chunks

\* what load assigns to self.chunks and self.metadata
LoadedChunks(f) == PickleLoad(f).chunks

LoadedMetadata(f) == PickleLoad(f).metadata

\* load(path)
Load(p) ==
    IF ~Found(disk[p])
    THEN \* "Vector store not found": return
         /\ last' = Call("load", "ok", p, LoadRes(FALSE))
         /\ UNCHANGED <<store, disk, wrote, proc>>
    ELSE IF ~PickleLoads(disk[p].data)
    THEN \* read_index has replaced self.index when pickle.load raises
         /\ index' = ReadIndex(disk[p].index)
         /\ last' = Call("load", "raise", p, LoadRes(TRUE))
         /\ UNCHANGED <<dimension, chunks, metadata, disk, wrote, proc>>
    ELSE /\ index' = ReadIndex(disk[p].index)
         /\ chunks' = LoadedChunks(disk[p].data)
         /\ metadata' = LoadedMetadata(disk[p].data)
         /\ last' = Call("load", "ok", p, LoadRes(TRUE))
         /\ UNCHANGED <<dimension, disk, wrote, proc>>

---------------------------------------------------------------------------
(* The calls a program makes *)

\* the arguments of one add_documents call: the chunks, the embeddings and
\* the metadata of the first nc, ne and nm entries of a list S of entries,
\* the i-th embedding computed at dimension ds[i]
AddCall(nc, ne, nm) ==
    /\ Len(chunks) + nc <= MaxSize
    /\ Len(metadata) + nm <= MaxSize
    /\ ntotal(index) + ne <= MaxSize
    /\ \E S \in [1..Max3(nc, ne, nm) -> Entries], ds \in [1..ne -> Dims] :
          AddDocuments([i \in 1..nc |-> ChunkText(S[i])],
                       [i \in 1..ne |-> Embedding(S[i], ds[i])],
                       [i \in 1..nm |-> MetaOf(S[i])])

\* callers that pass one chunk, one embedding and one metadata record per
\* entry, as the ingestion scripts do when embedding succeeds
AddCallEq == \E n \in 0..MaxSize : AddCall(n, n, n)

\* callers that pass lists of any lengths
AddCallAny == \E nc, ne, nm \in 0..MaxSize : AddCall(nc, ne, nm)

Init ==
    /\ dimension \in Dims
    /\ index = IndexFlatL2(dimension)
    /\ chunks = <<>>
    /\ metadata = <<>>
    /\ disk = [p \in Paths |-> [index |-> NoFile, data |-> NoFile]]
    /\ last = Call("__init__", "ok", dimension, <<>>)
    /\ wrote = [p \in Paths |-> [index |-> NotSaved, data |-> NotSaved]]
    /\ Imported

\* one store, built and queried, saved and loaded, by callers that pass one
\* embedding and one metadata record per chunk
Next ==
    \/ \E d \in Dims : Construct(d)
    \/ AddCallEq
    \/ \E q \in Queries, k \in Ks : DoSearch(q, k)
    \/ \E p \in Paths : Save(p)
    \/ \E p \in Paths : Load(p)

Spec == Init /\ [][Next]_vars

\* one store in memory, called with argument lists of any lengths
NextArgs ==
    \/ \E d \in Dims : Construct(d)
    \/ AddCallAny
    \/ \E q \in Queries, k \in Ks : DoSearch(q, k)

SpecArgs == Init /\ [][NextArgs]_vars

\* the directory holds no file of a save that was stopped: nothing, or the
\* two files of one save
Complete(p) == wrote[p].index = wrote[p].data

\* one process after another, each constructing its store with the same
\* dimension, adding, saving and loading; a save over an empty directory
\* or over a complete snapshot may be stopped by an I/O error or by the end
\* of the process
NextIO ==
    \/ Construct(dimension)
    \/ AddCallEq
    \/ \E p \in Paths : Save(p)
    \/ \E p \in Paths, at \in {"index", "open"} :
          /\ Complete(p)
          /\ \/ SaveInterrupted(p, at, "raise", dimension)
             \/ SaveInterrupted(p, at, "crash", dimension)
    \/ \E p \in Paths : Load(p)

SpecIO == Init /\ [][NextIO]_vars

---------------------------------------------------------------------------
(* The chunker (app/rag/ingest.py) *)

\* a text is a sequence of characters; " " stands for any whitespace
Chars == {" ", "a", "b"}

\* text.split() on the characters lo..hi of text: the maximal runs of
\* non-whitespace characters, in order.  The range is split in halves (the
\* recursion is then as deep as log2 of the length) and a run that crosses
\* the middle is put together again
RECURSIVE SplitRange(_, _, _)
SplitRange(text, lo, hi) ==
    IF lo > hi THEN <<>>
    ELSE IF lo = hi
    THEN IF text[lo] = " " THEN <<>> ELSE << <<text[lo]>> >>
    ELSE LET mid == (lo + hi) \div 2
             l == SplitRange(text, lo, mid)
             r == SplitRange(text, mid + 1, hi)
         IN  IF text[mid] # " " /\ text[mid + 1] # " "
             THEN SubSeq(l, 1, Len(l) - 1) \o << l[Len(l)] \o r[1] >> \o Tail(r)
             ELSE l \o r

Split(text) == SplitRange(text, 1, Len(text))

\* " ".join of the words lo..hi of ws, in halves as above
RECURSIVE JoinRange(_, _, _)
JoinRange(ws, lo, hi) ==
    IF lo > hi THEN <<>>
    ELSE IF lo = hi THEN ws[lo]
    ELSE LET mid == (lo + hi) \div 2
         IN  JoinRange(ws, lo, mid) \o <<" ">> \o JoinRange(ws, mid + 1, hi)

Join(ws) == JoinRange(ws, 1, Len(ws))

\* sum(len(w) + 1 for w in ws)
RECURSIVE SumLen(_)
SumLen(ws) == IF ws = <<>> THEN 0 ELSE Len(ws[1]) + 1 + SumLen(Tail(ws))

\* int(x / y) for integers x and y > 0: the quotient cut towards zero
Trunc(x, y) == IF x >= 0 THEN x \div y ELSE -((-x) \div y)

\* the pairs <<overlap, m>>, for the overlaps used here (50, and those
\* between -17 and 17), for which Python's floating-point
\* overlap / (overlap / m) is just below the integer m
RoundsBelow == { <<50, 11>>, <<50, 22>> }

\* int(overlap / (current_length / len(current_chunk))): the quotient
\* overlap * n / current_length cut towards zero, and one less where the
\* quotient is an integer that the two floating-point divisions miss
OverlapWords(overlap, current_length, n) ==
    LET m == Trunc(overlap * n, current_length)
    IN  IF overlap * n = m * current_length /\ <<overlap, m>> \in RoundsBelow
        THEN m - 1
        ELSE m

FirstWords(ws, m) ==
    IF m >= Len(ws) THEN ws ELSE SubSeq(ws, 1, m)

\* current_chunk[-m:] for m > 0: the last m words, all of them when m is
\* the length or more
LastWords(ws, m) ==
    IF m >= Len(ws) THEN ws ELSE SubSeq(ws, Len(ws) - m + 1, Len(ws))

\* what the loop of chunk_text carries from word to word
ChunkState(cs, cur, len) ==
    [chunks |-> cs, current_chunk |-> cur, current_length |-> len]

\* the body of the loop for one word
ChunkStep(st, word, chunk_size, overlap) ==
    LET cur == Append(st.current_chunk, word)
        len == st.current_length + Len(word) + 1
        overlap_words == OverlapWords(overlap, len, Len(cur))
        kept == IF overlap_words > 0 THEN LastWords(cur, overlap_words)
                ELSE <<>>
    IN  IF len >= chunk_size
        THEN ChunkState(Append(st.chunks, Join(cur)), kept, SumLen(kept))
        ELSE ChunkState(st.chunks, cur, len)

\* the loop of chunk_text over the words lo..hi, entered in state st: the
\* first half of the words, then the second half from the state the first
\* leaves
RECURSIVE ChunkLoop(_, _, _, _, _, _)
ChunkLoop(words, lo, hi, st, chunk_size, overlap) ==
    IF lo > hi THEN st
    ELSE IF lo = hi THEN ChunkStep(st, words[lo], chunk_size, overlap)
    ELSE LET mid == (lo + hi) \div 2
             half == ChunkLoop(words, lo, mid, st, chunk_size, overlap)
         IN  \* current_length is never negative; testing it makes TLC
             \* compute the first half's state before it enters the second
             IF half.current_length >= 0
             THEN ChunkLoop(words, mid + 1, hi, half, chunk_size, overlap)
             ELSE half

ChunkEndAlways(st) == Append(st.chunks, Join(st.current_chunk))

ChunkEndNever(st) == st.chunks

\* the statements after the loop: the chunk being filled, if it holds a
\* word, is the last chunk

ChunkEnd(st) ==
    IF st.current_chunk # <<>>
    THEN Append(st.chunks, Join(st.current_chunk))
    ELSE st.chunks

\* chunk_text(text, chunk_size, overlap)
chunk_text(text, chunk_size, overlap) ==
    ChunkEnd(ChunkLoop(Split(text), 1, Len(Split(text)),
                       ChunkState(<<>>, <<>>, 0), chunk_size, overlap))

---------------------------------------------------------------------------
(* Calls of the chunker *)

\* the texts chunked are of at most MaxText characters
MaxText == 7

\* every text of at most n characters
RECURSIVE TextsUpTo(_)
TextsUpTo(n) ==
    IF n = 0 THEN { <<>> }
    ELSE TextsUpTo(n - 1)
            \cup { Append(t, c) : t \in { u \in TextsUpTo(n - 1) : Len(u) = n - 1 },
                                  c \in Chars }

Texts == TextsUpTo(MaxText)

\* the chunk_size and overlap arguments: below, at and above each other,
\* zero and negative included
ChunkSizes == -1..5

Overlaps == -1..5

\* what `last` keeps of a chunk_text call
ChunkArg(text, chunk_size, overlap) ==
    [text |-> text, chunk_size |-> chunk_size, overlap |-> overlap]

\* the call of chunk_text that the process is about to make
ChunkCall ==
    /\ last.op = "call chunk_text"
    /\ last' = Call("chunk_text", "ok", last.arg,
                    chunk_text(last.arg.text, last.arg.chunk_size,
                               last.arg.overlap))
    /\ UNCHANGED <<store, disk, wrote, proc>>

\* a process about to call chunk_text with the arguments arg
InitCall(arg) ==
    /\ dimension = 3
    /\ index = IndexFlatL2(dimension)
    /\ chunks = <<>>
    /\ metadata = <<>>
    /\ disk = [p \in Paths |-> [index |-> NoFile, data |-> NoFile]]
    /\ last = Call("call chunk_text", "ok", arg, <<>>)
    /\ wrote = [p \in Paths |-> [index |-> NotSaved, data |-> NotSaved]]
    /\ Imported

\* a process about to call chunk_text on a text with a chunk_size and an
\* overlap
InitChunk ==
    \E text \in Texts, chunk_size \in ChunkSizes, overlap \in Overlaps :
        InitCall(ChunkArg(text, chunk_size, overlap))

NextChunk == ChunkCall

SpecChunk == InitChunk /\ [][NextChunk]_vars

\* the defaults of chunk_text, which the scenario of section 8 uses
DefaultChunkSize == 500

DefaultOverlap == 50

\* the length of the scenario's text
ScenarioLen == 1000

\* the lengths of the words of the scenario's texts
WordLens == {4, 6, 10, 12, 50}

\* n words of w characters c
Run(n, w, c) == [i \in 1..n |-> [j \in 1..w |-> c]]

\* the characters left for the second run of a text whose first run is a
\* words of w1 characters: each word but the last is followed by a space
RestLen(a, w1) == ScenarioLen + 1 - a * (w1 + 1)

\* the texts of ScenarioLen characters made of a words of w1 characters
\* followed by b words of w2 characters, separated by single spaces
Texts1000 ==
    { Join(Run(x[1], x[2], "a")
              \o Run(RestLen(x[1], x[2]) \div (x[3] + 1), x[3], "b")) :
        x \in { y \in (1..ScenarioLen) \X WordLens \X WordLens :
                  /\ RestLen(y[1], y[2]) >= 0
                  /\ RestLen(y[1], y[2]) % (y[3] + 1) = 0
                  /\ y[2] # y[3] } }

ScenarioArgs ==
    { ChunkArg(text, DefaultChunkSize, DefaultOverlap) : text \in Texts1000 }

InitScenario == \E arg \in ScenarioArgs : InitCall(arg)

NextScenario == ChunkCall

SpecScenario == InitScenario /\ [][NextScenario]_vars

---------------------------------------------------------------------------
(* Retrieval (app/rag/retrieve.py) *)

\* the dimension of VectorStore() without argument (1536 in the source;
\* the larger of the two dimensions here)
DefaultDimension == 3

\* a VectorStore object as a value
NewStore(d) ==
    [dimension |-> d, index |-> IndexFlatL2(d), chunks |-> <<>>,
     metadata |-> <<>>]

\* load(path) on the store s, the directory at the path being dir: how the
\* call ends and the store it leaves
LoadInto(s, dir) ==
    IF ~Found(dir)
    THEN [out |-> "ok", store |-> s]
    ELSE IF ~PickleLoads(dir.data)
    THEN [out |-> "raise",
          store |-> [s EXCEPT !.index = ReadIndex(dir.index)]]
    ELSE [out |-> "ok",
          store |-> [s EXCEPT !.index = ReadIndex(dir.index),
                              !.chunks = LoadedChunks(dir.data),
                              !.metadata = LoadedMetadata(dir.data)]]

\* the organizations (collections)
Orgs == {"sample_org", "other_org"}

\* os.path.join(base_dir, "data", org_name, "vector_store")
StorePath(org) == <<"data", org, "vector_store">>

\* os.path.exists(store_path); a directory without any file is taken as no
\* directory, load finding nothing in either
PathExists(dir) == dir.index.exists \/ dir.data.exists

NoDir == [index |-> NoFile, data |-> NoFile]

\* the store of an ingestion run: VectorStore(d), then add_documents with
\* the chunks, embeddings and metadata of the entries S
Ingested(S, d) ==
    [dimension |-> d,
     index |-> [d |-> d, vecs |-> [i \in DOMAIN S |-> Embedding(S[i], d)]],
     chunks |-> [i \in DOMAIN S |-> ChunkText(S[i])],
     metadata |-> [i \in DOMAIN S |-> MetaOf(S[i])]]

\* the directory that save(path) of the store s leaves
SnapshotOf(s) ==
    [index |-> WriteIndex(s.index), data |-> PickleDump(s.chunks, s.metadata)]

\* what the directory of an organization may hold: nothing, the snapshot of
\* an ingestion run, or what a first save leaves that was stopped before
\* pickle.dump
Dirs ==
    {NoDir}
       \cup { SnapshotOf(Ingested(S, d)) :
                S \in UNION { [1..n -> Entries] : n \in 1..MaxSize }, d \in Dims }
       \cup { [SnapshotOf(Ingested(<<e>>, d)) EXCEPT !.data = Truncated] :
                e \in Entries, d \in Dims }

\* what client.embeddings.create does: it raises, or it returns an
\* embedding
EmbedderFailed == [ok |-> FALSE, embedding |-> <<>>]

EmbedderReturned(v) == [ok |-> TRUE, embedding |-> v]

QueryTexts == {"what are the office hours"}

\* the embedding of a query text, of the default dimension
QueryEmbedding(query) == <<9, 1, 0>>

EmbedderResponses(query) ==
    {EmbedderFailed, EmbedderReturned(<<>>),
     EmbedderReturned(QueryEmbedding(query))}

\* create_query_embedding: the embedding, [] when the embedder raised
create_query_embedding(resp) ==
    IF resp.ok THEN resp.embedding ELSE <<>>

\* get_vector_store(org_name), run from its first statement to its return
\* without another call in between: the global, the stores and the number
\* of loads it leaves
GetVectorStore(org) ==
    IF vector_store # None
    THEN [vector_store |-> vector_store, objs |-> objs, loads |-> loads]
    ELSE LET dir == disk[StorePath(org)]
             new == NewStore(DefaultDimension)
         IN  [vector_store |-> Len(objs) + 1,
              objs |-> Append(objs, IF PathExists(dir)
                                    THEN LoadInto(new, dir).store
                                    ELSE new),
              loads |-> IF PathExists(dir) THEN loads + 1 ELSE loads]

ChunkTextsReversed(results) ==
    [i \in DOMAIN results |-> results[Len(results) + 1 - i][1]]

\* [chunk for chunk, metadata, distance in results]
ChunkTexts(results) == [i \in DOMAIN results |-> results[i][1]]

\* what a retrieve_relevant_chunks call gives: how it ends, the list it
\* returns and the number of calls it made to the embedder
Retrieved(out, res, n) == [out |-> out, res |-> res, embedded |-> n]

RetrieveBodyEmbedFirst(s, resp, k) ==
    IF Len(s.chunks) = 0 \/ create_query_embedding(resp) = <<>>
    THEN Retrieved("ok", <<>>, 1)
    ELSE LET r == SearchIn(s.index, s.chunks, s.metadata,
                           create_query_embedding(resp), k)
         IN  IF r.out = "raise" THEN Retrieved("raise", <<>>, 1)
             ELSE Retrieved("ok", ChunkTexts(r.res), 1)

\* the statements of retrieve_relevant_chunks inside `try`, the store
\* obtained being s and the embedder answering resp
RetrieveBody(s, resp, k) ==
    IF Len(s.chunks) = 0
    THEN \* "Vector store is empty"
         Retrieved("ok", <<>>, 0)
    ELSE IF create_query_embedding(resp) = <<>>
    THEN Retrieved("ok", <<>>, 1)
    ELSE LET r == SearchIn(s.index, s.chunks, s.metadata,
                           create_query_embedding(resp), k)
         IN  IF r.out = "raise" THEN Retrieved("raise", <<>>, 1)
             ELSE Retrieved("ok", ChunkTexts(r.res), 1)

RetrieveNoExcept(s, resp, k) == RetrieveBody(s, resp, k)

\* retrieve_relevant_chunks with its `except Exception: return []`
retrieve_relevant_chunks(s, resp, k) ==
    IF RetrieveBody(s, resp, k).out = "raise"
    THEN Retrieved("ok", <<>>, RetrieveBody(s, resp, k).embedded)
    ELSE RetrieveBody(s, resp, k)

\* what `last` keeps of the arguments of a retrieval call
RetrieveArg(query, k, org, resp) ==
    [query |-> query, k |-> k, org |-> org, resp |-> resp]

\* a call of get_vector_store(org)
GetStoreCall(org) ==
    /\ vector_store' = GetVectorStore(org).vector_store
    /\ objs' = GetVectorStore(org).objs
    /\ loads' = GetVectorStore(org).loads
    /\ last' = Call("get_vector_store", "ok",
                    RetrieveArg("", 0, org, EmbedderFailed),
                    Retrieved("ok", <<>>, 0)
                       @@ [store |-> GetVectorStore(org).vector_store])
    /\ UNCHANGED <<store, disk, wrote, pc>>

\* a call of retrieve_relevant_chunks(query, k, org), the embedder
\* answering resp if it is called
RetrieveCall(query, k, org, resp) ==
    LET g == GetVectorStore(org)
        r == retrieve_relevant_chunks(g.objs[g.vector_store], resp, k)
    IN  /\ vector_store' = g.vector_store
        /\ objs' = g.objs
        /\ loads' = g.loads
        /\ last' = Call("retrieve_relevant_chunks", r.out,
                        RetrieveArg(query, k, org, resp),
                        r @@ [store |-> g.vector_store])
        /\ UNCHANGED <<store, disk, wrote, pc>>

\* a server process as started: each organization's directory holds
\* nothing, a snapshot or a stopped save; the module is imported
InitRetrieve ==
    /\ dimension = DefaultDimension
    /\ index = IndexFlatL2(dimension)
    /\ chunks = <<>>
    /\ metadata = <<>>
    /\ disk \in [{StorePath(org) : org \in Orgs} -> Dirs]
    /\ last = Call("import", "ok", <<>>, <<>>)
    /\ wrote = [p \in Paths |-> [index |-> NotSaved, data |-> NotSaved]]
    /\ Imported

\* the calls run one after the other (the request handler is a coroutine
\* that calls retrieve_relevant_chunks without awaiting inside it)
NextRetrieve ==
    \/ \E org \in Orgs : GetStoreCall(org)
    \/ \E query \in QueryTexts, k \in Ks, org \in Orgs :
          \E resp \in EmbedderResponses(query) :
             RetrieveCall(query, k, org, resp)

SpecRetrieve == InitRetrieve /\ [][NextRetrieve]_vars

---------------------------------------------------------------------------
(* get_vector_store called from threads *)

\* a caller at the statement `at` of get_vector_store(org)
At(at, org) == [at |-> at, org |-> org, ret |-> None]

\* thread t calls get_vector_store(org)
Enter(t, org) ==
    /\ pc[t].at = "idle"
    /\ pc' = [pc EXCEPT ![t] = At("test", org)]
    /\ UNCHANGED <<store, disk, last, wrote, vector_store, objs, loads>>

\* line 26: if _vector_store is None
TestNone(t) ==
    /\ pc[t].at = "test"
    /\ pc' = [pc EXCEPT ![t].at =
                IF vector_store = None THEN "construct" ELSE "return"]
    /\ UNCHANGED <<store, disk, last, wrote, vector_store, objs, loads>>

\* line 27: _vector_store = VectorStore()
ConstructStore(t) ==
    /\ pc[t].at = "construct"
    /\ objs' = Append(objs, NewStore(DefaultDimension))
    /\ vector_store' = Len(objs) + 1
    /\ pc' = [pc EXCEPT ![t].at = "exists"]
    /\ UNCHANGED <<store, disk, last, wrote, loads>>

\* lines 30-33: if os.path.exists(store_path)
TestPath(t) ==
    /\ pc[t].at = "exists"
    /\ pc' = [pc EXCEPT ![t].at =
                IF PathExists(disk[StorePath(pc[t].org)]) THEN "load"
                ELSE "return"]
    /\ UNCHANGED <<store, disk, last, wrote, vector_store, objs, loads>>

\* lines 34-38: _vector_store.load(store_path), on the store the global
\* names when the statement runs; an exception of load is logged
LoadStore(t) ==
    /\ pc[t].at = "load"
    /\ objs' = [objs EXCEPT ![vector_store] =
                  LoadInto(@, disk[StorePath(pc[t].org)]).store]
    /\ loads' = loads + 1
    /\ pc' = [pc EXCEPT ![t].at = "return"]
    /\ UNCHANGED <<store, disk, last, wrote, vector_store>>

\* line 40: return _vector_store
ReturnStore(t) ==
    /\ pc[t].at = "return"
    /\ pc' = [pc EXCEPT ![t] = [at |-> "done", org |-> @.org,
                                ret |-> vector_store]]
    /\ UNCHANGED <<store, disk, last, wrote, vector_store, objs, loads>>

\* the first calls of a process for one organization, made from threads
\* that run statement by statement in any order
NextThreads ==
    \E t \in Callers :
        \/ Enter(t, "sample_org")
        \/ TestNone(t)
        \/ ConstructStore(t)
        \/ TestPath(t)
        \/ LoadStore(t)
        \/ ReturnStore(t)

SpecThreads == InitRetrieve /\ [][NextThreads]_vars

\* retrieve_relevant_chunks line 84, run by the thread whose call of
\* get_vector_store (line 82) has returned: if len(vector_store.chunks) == 0
\* it returns [] ("Vector store is empty"), else it goes on to embed the
\* query and to search
TestEmpty(t) ==
    /\ pc[t].at = "done"
    /\ pc' = [pc EXCEPT ![t].at =
                IF Len(objs[pc[t].ret].chunks) = 0 THEN "no documents"
                ELSE "search"]
    /\ UNCHANGED <<store, disk, last, wrote, vector_store, objs, loads>>

\* the first calls of retrieve_relevant_chunks of a process, made from
\* threads
NextRetrieveThreads ==
    \/ NextThreads
    \/ \E t \in Callers : TestEmpty(t)

SpecRetrieveThreads == InitRetrieve /\ [][NextRetrieveThreads]_vars

---------------------------------------------------------------------------
(* Ingestion (app/rag/ingest.py, app/rag/ingest_local.py) *)

\* a documents directory holds at most MaxFiles files
MaxFiles == 2

\* what extract_text_from_file does with a file: it raises (open fails,
\* the bytes are not UTF-8, the PDF reader fails), or it returns the text
Unreadable == [ok |-> FALSE, text |-> <<>>]

Extracted(text) == [ok |-> TRUE, text |-> text]

\* a text of one chunk, and a text of 143 words and 1000 characters, which
\* the default chunk_size and overlap cut into three chunks
ShortText == <<"a", " ", "b">>

LongText == Join(Run(143, 6, "a"))

\* a text without a word (also what extraction returns for a PDF when
\* PyPDF2 is not installed, after stripping)
BlankText == <<" ">>

FileContents ==
    {Unreadable, Extracted(BlankText), Extracted(ShortText),
     Extracted(LongText)}

\* the name of the i-th file that the two glob calls list
FileName(i) == <<"doc", i, ".txt">>

\* the documents directories: the path does not exist, or it holds files
NoDocs == [exists |-> FALSE, files |-> <<>>]

DocsOf(contents) ==
    [exists |-> TRUE,
     files |-> [i \in DOMAIN contents |->
                  [name |-> FileName(i), content |-> contents[i]]]]

Docs ==
    {NoDocs} \cup
       { DocsOf(cs) : cs \in UNION { [1..n -> FileContents] : n \in 0..MaxFiles } }

\* the dimension of the local model (384 in the source; the smaller of the
\* two dimensions here)
LocalDimension == 2

\* the embedding of a text, of dimension d
EmbedText(text, d) ==
    [i \in 1..d |-> IF i = 1 THEN Len(text) % 11 ELSE IF i = 2 THEN 10 ELSE 0]

\* how the embedder behaves during one call: every request succeeds, or
\* the request after `after` successful ones raises (after = 0: the first
\* request, or making the client or loading the model)
EmbedderOk == [ok |-> TRUE, after |-> 0]

EmbedderRaises(n) == [ok |-> FALSE, after |-> n]

EmbedderBehaviours == {EmbedderOk} \cup { EmbedderRaises(n) : n \in 0..1 }

\* the embeddings of the first n texts
Embedded(texts, n, d) == [i \in 1..n |-> EmbedText(texts[i], d)]

CreateEmbeddingsPartial(texts, beh) ==
    IF ~beh.ok /\ beh.after < Len(texts)
    THEN Embedded(texts, beh.after, DefaultDimension)
    ELSE Embedded(texts, Len(texts), DefaultDimension)

\* create_embeddings(texts): one request per text; an exception of any
\* request ends the loop in `except Exception`, which returns []
create_embeddings(texts, beh) ==
    IF ~beh.ok /\ beh.after < Len(texts)
    THEN <<>>
    ELSE Embedded(texts, Len(texts), DefaultDimension)

\* create_local_embeddings(texts, model_name): [] when the package is
\* missing or the model or the batch raises; with no text the log line
\* reads embeddings[0] and raises IndexError, which also gives []
create_local_embeddings(texts, beh) ==
    IF ~beh.ok \/ texts = <<>>
    THEN <<>>
    ELSE Embedded(texts, Len(texts), LocalDimension)

\* chunk_text with the defaults (ingest.py:139) and with chunk_size=500,
\* overlap=50 (ingest_local.py:48)
FileChunks(text) == chunk_text(text, DefaultChunkSize, DefaultOverlap)

\* the metadata records of the n chunks of a file
FileMetadata(name, n) ==
    [i \in 1..n |-> [source |-> name, chunk_index |-> i - 1]]

FileMetadataLocal(name, n) ==
    [i \in 1..n |-> [source |-> <<"knowledge", name>>, chunk_id |-> i - 1,
                     filename |-> name]]

\* what a call of an ingestion function gives: how it ends and the dict
\* it returns
IngestResult(out, cs, es, ms) ==
    [out |-> out, chunks |-> cs, embeddings |-> es, metadata |-> ms]

\* the loop of ingest_documents over the files i, i+1, ..: extraction is
\* not in a try, a file without text is skipped
RECURSIVE IngestFiles(_, _, _)
IngestFiles(files, i, acc) ==
    IF i > Len(files) THEN acc
    ELSE IF ~files[i].content.ok
    THEN IngestResult("raise", <<>>, <<>>, <<>>)
    ELSE IF Split(files[i].content.text) = <<>>
    THEN IngestFiles(files, i + 1, acc)
    ELSE LET cs == FileChunks(files[i].content.text)
         IN  IngestFiles(files, i + 1,
                IngestResult("ok", acc.chunks \o cs, <<>>,
                   acc.metadata \o FileMetadata(files[i].name, Len(cs))))

\* the loop of ingest_documents_local: the body is in a try whose except
\* logs the error and goes on to the next file
RECURSIVE IngestFilesLocal(_, _, _)
IngestFilesLocal(files, i, acc) ==
    IF i > Len(files) THEN acc
    ELSE IF ~files[i].content.ok
    THEN IngestFilesLocal(files, i + 1, acc)
    ELSE LET cs == FileChunks(files[i].content.text)
         IN  IngestFilesLocal(files, i + 1,
                IngestResult("ok", acc.chunks \o cs, <<>>,
                   acc.metadata \o FileMetadataLocal(files[i].name, Len(cs))))

\* ingest_documents(path)
ingest_documents(docs, beh) ==
    IF ~docs.exists
    THEN IngestResult("ok", <<>>, <<>>, <<>>)
    ELSE LET r == IngestFiles(docs.files, 1,
                              IngestResult("ok", <<>>, <<>>, <<>>))
         IN  IF r.out = "raise" THEN r
             ELSE [r EXCEPT !.embeddings = create_embeddings(r.chunks, beh)]

\* ingest_documents_local(docs_path, model_name); glob on a path that does
\* not exist lists nothing
ingest_documents_local(docs, beh) ==
    LET r == IngestFilesLocal(docs.files, 1,
                              IngestResult("ok", <<>>, <<>>, <<>>))
    IN  [r EXCEPT !.embeddings = create_local_embeddings(r.chunks, beh)]

\* what `last` keeps of the arguments of an ingestion call
IngestArg(docs, beh) == [docs |-> docs, beh |-> beh]

IngestFunctions == {"ingest_documents", "ingest_documents_local"}

\* the call of an ingestion function that the process is about to make
IngestCall ==
    /\ last.op \in {"call ingest_documents", "call ingest_documents_local"}
    /\ LET r == IF last.op = "call ingest_documents"
                THEN ingest_documents(last.arg.docs, last.arg.beh)
                ELSE ingest_documents_local(last.arg.docs, last.arg.beh)
       IN  last' = Call(IF last.op = "call ingest_documents"
                        THEN "ingest_documents" ELSE "ingest_documents_local",
                        r.out, last.arg, r)
    /\ UNCHANGED <<store, disk, wrote, proc>>

\* a process about to call f on the documents directory docs, the
\* embedder behaving as beh
InitIngest ==
    \E f \in IngestFunctions, docs \in Docs, beh \in EmbedderBehaviours :
        /\ dimension = DefaultDimension
        /\ index = IndexFlatL2(dimension)
        /\ chunks = <<>>
        /\ metadata = <<>>
        /\ disk = [p \in Paths |-> [index |-> NoFile, data |-> NoFile]]
        /\ last = Call(IF f = "ingest_documents" THEN "call ingest_documents"
                       ELSE "call ingest_documents_local",
                       "ok", IngestArg(docs, beh), <<>>)
        /\ wrote = [p \in Paths |-> [index |-> NotSaved, data |-> NotSaved]]
        /\ Imported

NextIngest == IngestCall

SpecIngest == InitIngest /\ [][NextIngest]_vars

---------------------------------------------------------------------------
(* The ingestion commands (scripts/ingest_documents.py and
   scripts/ingest_documents_free.py) *)

\* add_documents(chunks, embeddings, metadata) on the store s: how the
\* call ends and the store it leaves
AddInto(s, cs, es, ms) ==
    IF es = <<>>
    THEN [out |-> "ok", store |-> s]
    ELSE IF Ragged(es) \/ ~IndexAddAccepts(s.index, es)
    THEN [out |-> "raise", store |-> s]
    ELSE [out |-> "ok",
          store |-> [s EXCEPT !.index.vecs = @ \o es,
                              !.chunks = @ \o cs,
                              !.metadata = @ \o ms]]

\* Path(f"data/{args.org}/vector_store_local")
LocalStorePath(org) == <<"data", org, "vector_store_local">>

\* the organization the commands are run for (the default of --org)
CliOrgs == {"sample_org"}

Scripts == {"ingest_documents.py", "ingest_documents_free.py"}

\* the documents directories the commands are run on
CliDocs == { d \in Docs : \A i \in DOMAIN d.files :
                             d.files[i].content # Extracted(LongText) }

\* what a run of a command gives: how main ends, the exit code of the
\* process, the result of the ingestion function (if it returned one),
\* whether save was called, and the directory at the store path afterwards
Ran(out, code, result, didSave, dir) ==
    [out |-> out, code |-> code, result |-> result, saved |-> didSave,
     dir |-> dir]

NoResult == IngestResult("raise", <<>>, <<>>, <<>>)

\* main of scripts/ingest_documents.py, the directory at store_path being
\* dir; an exception that leaves main ends the process with code 1
Main(docs, beh, dir) ==
    IF ~docs.exists
    THEN Ran("ok", 1, NoResult, FALSE, dir)
    ELSE LET result == ingest_documents(docs, beh)
             added == AddInto(NewStore(DefaultDimension), result.chunks,
                              result.embeddings, result.metadata)
         IN  IF result.out = "raise"
             THEN Ran("raise", 1, NoResult, FALSE, dir)
             ELSE IF result.chunks = <<>>
             THEN \* "No documents were ingested"
                  Ran("ok", 1, result, FALSE, dir)
             ELSE IF added.out = "raise"
             THEN Ran("raise", 1, result, FALSE, dir)
             ELSE Ran("ok", 0, result, TRUE, SnapshotOf(added.store))

\* main of scripts/ingest_documents_free.py
MainFree(docs, beh, dir) ==
    IF ~docs.exists
    THEN Ran("ok", 1, NoResult, FALSE, dir)
    ELSE LET result == ingest_documents_local(docs, beh)
             added == AddInto(NewStore(Len(result.embeddings[1])),
                              result.chunks, result.embeddings,
                              result.metadata)
         IN  IF result.embeddings = <<>>
             THEN \* "Failed to create embeddings"
                  Ran("ok", 1, result, FALSE, dir)
             ELSE IF added.out = "raise"
             THEN Ran("raise", 1, result, FALSE, dir)
             ELSE Ran("ok", 0, result, TRUE, SnapshotOf(added.store))

\* the store path of a command
ScriptStorePath(script, org) ==
    IF script = "ingest_documents.py" THEN StorePath(org)
    ELSE LocalStorePath(org)

\* what `last` keeps of the arguments of a run
RunArg(org, docs, beh) == [org |-> org, docs |-> docs, beh |-> beh]

\* one run of a command, from the start of the process to its exit
RunScript(script, org, docs, beh) ==
    LET path == ScriptStorePath(script, org)
        r == IF script = "ingest_documents.py"
             THEN Main(docs, beh, disk[path])
             ELSE MainFree(docs, beh, disk[path])
    IN  /\ disk' = [disk EXCEPT ![path] = r.dir]
        /\ last' = Call(script, r.out, RunArg(org, docs, beh), r)
        /\ UNCHANGED <<store, wrote, proc>>

\* a machine on which no command has run yet
InitCli ==
    /\ dimension = DefaultDimension
    /\ index = IndexFlatL2(dimension)
    /\ chunks = <<>>
    /\ metadata = <<>>
    /\ disk = [p \in { ScriptStorePath(script, org) :
                          script \in Scripts, org \in CliOrgs } |-> NoDir]
    /\ last = Call("boot", "ok", <<>>, <<>>)
    /\ wrote = [p \in Paths |-> [index |-> NotSaved, data |-> NotSaved]]
    /\ Imported

\* the operator runs the commands one after the other
NextCli ==
    \E script \in Scripts, org \in CliOrgs, docs \in CliDocs,
       beh \in EmbedderBehaviours :
        RunScript(script, org, docs, beh)

SpecCli == InitCli /\ [][NextCli]_vars

---------------------------------------------------------------------------
(* Properties *)

LengthsAligned ==
    Len(chunks) = Len(metadata) /\ Len(chunks) = ntotal(index)

\* C1: after any sequence of add_documents, save and load calls the three
\* collections have one length, and position i of chunks, position i of
\* metadata and the i-th vector of the index belong to one entry
C1_Aligned ==
    /\ LengthsAligned
    /\ \A i \in 1..Len(chunks) : \E e \in Entries :
          /\ chunks[i] = ChunkText(e)
          /\ metadata[i] = MetaOf(e)
          /\ index.vecs[i] = Embedding(e, index.d)

\* C2: an add_documents call whose chunks, embeddings and metadata are not
\* all of one length fails and leaves the store as it was (stated for the
\* calls with at least one embedding; the call with none is C11's no-op)
C2_MismatchRejected ==
    [][(last'.op = "add_documents" /\ ~last'.arg.sameLen /\ last'.arg.n > 0)
          => (last'.out = "raise" /\ UNCHANGED store)]_vars

\* C3: an add_documents call with a vector whose length differs from the
\* declared dimension fails and leaves the store as it was
C3_WrongDimRejected ==
    [][(last'.op = "add_documents" /\ ~last'.arg.dimOK)
          => (last'.out = "raise" /\ UNCHANGED store)]_vars

\* the distances of a result, first to last
Dist(res) == [r \in DOMAIN res |-> res[r][3]]

\* res holds exactly n results, nearest first, each the squared Euclidean
\* distance from q to a distinct stored vector, no stored vector left out
\* being strictly nearer than a returned one
KNearest(res, q, n) ==
    /\ Len(res) = n
    /\ \A r \in 1..(Len(res) - 1) : Dist(res)[r] <= Dist(res)[r + 1]
    /\ \E f \in [1..Len(res) -> 1..ntotal(index)] :
          /\ \A a, b \in 1..Len(res) : a # b => f[a] # f[b]
          /\ \A r \in 1..Len(res) : Dist(res)[r] = L2Sqr(q, index.vecs[f[r]])
          /\ \A j \in 1..ntotal(index) :
                (\A r \in 1..Len(res) : f[r] # j)
                   => \A r \in 1..Len(res) :
                         Dist(res)[r] <= L2Sqr(q, index.vecs[j])

\* C4: on a non-empty store whose collections are aligned, search with a
\* query of the declared dimension and k >= 1 returns the min(k, size)
\* nearest stored vectors, nearest first
C4_SearchKNearest ==
    \A q \in Probes, k \in Ks :
        (chunks # <<>> /\ LengthsAligned /\ Len(q) = dimension /\ k >= 1)
           => /\ Search(q, k).out = "ok"
              /\ KNearest(Search(q, k).res, q, Min(k, Len(chunks)))

\* C5: search on a store holding no chunks returns an empty sequence and
\* does not raise, whatever the query vector and k, and changes nothing
C5_EmptySearch ==
    [][chunks = <<>>
          => /\ \A q \in Probes, k \in Ks :
                   Search(q, k) = [out |-> "ok", res |-> <<>>]
             /\ last'.op = "search"
                   => (last'.out = "ok" /\ last'.res = <<>>
                          /\ UNCHANGED store)]_vars

C5_Witness ==
    /\ last.op = "search" /\ last.out = "ok" /\ last.res = <<>>
    /\ chunks = <<>>
    /\ Len(last.arg[1]) # index.d

\* C6: save(path), then load(path) into a fresh store of the same
\* dimension: the chunks and the metadata are those of the saved store, in
\* order, and so is what search returns for any query and k
C6_RoundTrip ==
    (/\ last.op = "load" /\ last.out = "ok"
     /\ last.res.found /\ last.res.fresh
     /\ saved[last.arg].valid
     /\ saved[last.arg].dimension = dimension)
       => LET s == saved[last.arg]
          IN  /\ chunks = s.chunks
              /\ metadata = s.metadata
              /\ \A q \in Probes, k \in Ks :
                    Search(q, k) = SearchIn(s.index, s.chunks, s.metadata, q, k)

C6_Witness ==
    /\ last.op = "load" /\ last.out = "ok"
    /\ last.res.found /\ last.res.fresh
    /\ saved[last.arg].valid
    /\ saved[last.arg].dimension = dimension
    /\ Len(chunks) = 2 /\ chunks[1] # chunks[2]
    /\ Search(<<9, 1>>, 1).out = "ok"

\* C7: save is atomic with respect to its two files: a load after a save
\* that was stopped at any point loads the complete old snapshot or the
\* complete new one, never the index file of one save with the data file
\* of another
C7_SaveAtomic ==
    (last.op = "load" /\ last.out = "ok" /\ last.res.found)
       => wrote[last.arg].index = wrote[last.arg].data

\* C8: load when index.faiss or data.pkl (or both) is missing does not
\* raise and leaves chunks, metadata and the index as they were
C8_LoadNotFound ==
    [][(/\ last'.op = "load"
        /\ ~disk[last'.arg].index.exists \/ ~disk[last'.arg].data.exists)
          => (last'.out = "ok" /\ ~last'.res.found /\ UNCHANGED store)]_vars

C8_Witness ==
    /\ last.op = "load" /\ last.out = "ok" /\ ~last.res.found
    /\ disk[last.arg].index.exists /\ ~disk[last.arg].data.exists
    /\ chunks # <<>> /\ ntotal(index) = Len(chunks)

\* C9: a load that finds both files, into a store that holds entries,
\* leaves the store with exactly the chunks, the metadata and the vectors
\* of the snapshot at the path
C9_LoadReplaces ==
    [][(/\ last'.op = "load" /\ last'.out = "ok" /\ last'.res.found
        /\ chunks # <<>>)
          => /\ saved[last'.arg].valid
             /\ chunks' = saved[last'.arg].chunks
             /\ metadata' = saved[last'.arg].metadata
             /\ index' = saved[last'.arg].index]_vars

C9_Witness ==
    /\ last.op = "load" /\ last.out = "ok"
    /\ last.res.found /\ ~last.res.fresh
    /\ Len(chunks) = 1 /\ ntotal(index) = 1

C11_NoEmbeddingsNoOp ==
    [][(last'.op = "add_documents" /\ last'.arg.n = 0)
          => (last'.out = "ok" /\ UNCHANGED store)]_vars

C11_Witness ==
    /\ last.op = "add_documents" /\ last.out = "ok"
    /\ last.arg.n = 0 /\ ~last.arg.sameLen
    /\ chunks # <<>>

ChunkWords(res) == [i \in DOMAIN res |-> Split(res[i])]

\* the chunks i, i+1, .. of cws are windows of the word sequence ws, each
\* starting inside the window before it or right after it (the words it
\* shares with that window are the ones carried over) and ending no
\* earlier, the last one ending at the last word; p and q are the first and
\* the last position of the window of chunk i - 1
RECURSIVE Covers(_, _, _, _, _)
Covers(ws, cws, i, p, q) ==
    IF i > Len(cws) THEN q = Len(ws)
    ELSE \E q2 \in q..Len(ws) :
            LET p2 == q2 - Len(cws[i]) + 1
            IN  /\ p2 >= p /\ p2 <= q + 1
                /\ i = 1 => p2 = 1
                /\ SubSeq(ws, p2, q2) = cws[i]
                /\ Covers(ws, cws, i + 1, p2, q2)

\* C18: for 0 <= overlap < chunk_size, every chunk after the first begins
\* with words from the end of the chunk before it, and the chunks without
\* these words, one after the other, are the words of the text in order,
\* each occurrence once
C18_ChunksReconstruct ==
    (/\ last.op = "chunk_text"
     /\ 0 <= last.arg.overlap /\ last.arg.overlap < last.arg.chunk_size)
       => Covers(Split(last.arg.text), ChunkWords(last.res), 1, 1, 0)

C18_Witness ==
    /\ last.op = "chunk_text"
    /\ last.arg.overlap >= 1 /\ last.arg.overlap < last.arg.chunk_size
    /\ Len(last.res) = 3
    /\ Split(last.arg.text) = << <<"a">>, <<"b">>, <<"a">> >>
    /\ ChunkWords(last.res)[2] = << <<"b">>, <<"a">> >>

\* C19: chunk_text on a text without words returns the empty sequence; on
\* a text with words it returns at least one chunk and the last chunk ends
\* with the last word of the text; it raises for no chunk_size and overlap
C19_EmptyAndLast ==
    last.op = "chunk_text"
       => LET ws == Split(last.arg.text)
              cws == ChunkWords(last.res)
          IN  /\ last.out = "ok"
              /\ ws = <<>> => last.res = <<>>
              /\ ws # <<>> => /\ last.res # <<>>
                              /\ cws[Len(cws)] # <<>>
                              /\ cws[Len(cws)][Len(cws[Len(cws)])] = ws[Len(ws)]

C19_Witness ==
    /\ last.op = "chunk_text" /\ last.out = "ok"
    /\ last.arg.text = <<" ", " ">>
    /\ last.arg.overlap > last.arg.chunk_size /\ last.arg.chunk_size < 0
    /\ last.res = <<>>

\* C20 as claimed: chunk_text(text, 500, 50) on a text of 1000 characters
\* returns exactly 2 chunks, each of at most 550 characters, the second
\* beginning with words from the end of the first
C20_TwoChunks ==
    last.op = "chunk_text"
       => /\ Len(last.res) = 2
          /\ \A i \in DOMAIN last.res :
                Len(last.res[i]) <= DefaultChunkSize + DefaultOverlap
          /\ Covers(Split(last.arg.text), ChunkWords(last.res), 1, 1, 0)

\* C20 as amended: on a text of 1000 characters made of words of at most 50
\* characters separated by single spaces, chunk_text(text, 500, 50) returns
\* at least 2 chunks, each of at most 550 characters, every chunk after the
\* first beginning with the words carried over from the end of the chunk
\* before it, followed by the next words of the text
C20_AtLeastTwoChunks ==
    last.op = "chunk_text"
       => /\ Len(last.res) >= 2
          /\ \A i \in DOMAIN last.res :
                Len(last.res[i]) <= DefaultChunkSize + DefaultOverlap
          /\ Covers(Split(last.arg.text), ChunkWords(last.res), 1, 1, 0)

C20_Witness ==
    /\ last.op = "chunk_text"
    /\ Len(last.res) = 3
    /\ Len(ChunkWords(last.res)[1]) + Len(ChunkWords(last.res)[2])
          + Len(ChunkWords(last.res)[3]) > Len(Split(last.arg.text))

\* the store that the call recorded in `last` obtained
Obtained == objs[last.res.store]

\* C13: retrieve_relevant_chunks never raises; it returns the empty list
\* when the embedder fails or returns an empty vector, when the store
\* obtained holds nothing (no snapshot, or one that could not be loaded)
\* and when search fails
C13_RetrieveNeverRaises ==
    last.op = "retrieve_relevant_chunks"
       => /\ last.out = "ok"
          /\ (\/ ~last.arg.resp.ok
              \/ last.arg.resp.embedding = <<>>
              \/ Obtained.chunks = <<>>
              \/ SearchIn(Obtained.index, Obtained.chunks, Obtained.metadata,
                          last.arg.resp.embedding, last.arg.k).out = "raise")
                => last.res.res = <<>>

C13_Witness ==
    /\ last.op = "retrieve_relevant_chunks" /\ last.out = "ok"
    /\ last.arg.resp.ok /\ last.arg.resp.embedding # <<>>
    /\ last.arg.k >= 1
    /\ Obtained.chunks # <<>>
    /\ Len(last.arg.resp.embedding) # Obtained.index.d
    /\ last.res.res = <<>>

\* C14: when the store obtained holds no chunks the call returns the empty
\* list and has not called the embedder
C14_EmptyStoreNoEmbedding ==
    (last.op = "retrieve_relevant_chunks" /\ Obtained.chunks = <<>>)
       => (last.res.res = <<>> /\ last.res.embedded = 0)

C14_Witness ==
    /\ last.op = "retrieve_relevant_chunks"
    /\ Obtained.chunks = <<>>
    /\ last.arg.resp.ok /\ last.arg.resp.embedding # <<>>
    /\ last.arg.k >= 1
    /\ last.res.res = <<>> /\ last.res.embedded = 0

\* C15: when the embedder returns a vector, the store obtained holds
\* chunks and search returns, the list returned is the chunk texts of
\* search(embedding, k) in its order; it has at most min(k, store size)
\* elements, all of them chunks of the store
C15_RetrieveIsSearch ==
    (/\ last.op = "retrieve_relevant_chunks"
     /\ last.arg.resp.ok /\ last.arg.resp.embedding # <<>>
     /\ Obtained.chunks # <<>>)
       => LET r == SearchIn(Obtained.index, Obtained.chunks,
                            Obtained.metadata, last.arg.resp.embedding,
                            last.arg.k)
          IN  /\ r.out = "ok"
                    => /\ Len(last.res.res) = Len(r.res)
                       /\ \A i \in DOMAIN r.res : last.res.res[i] = r.res[i][1]
              /\ Len(last.res.res) <= Min(last.arg.k, Len(Obtained.chunks))
              /\ \A i \in DOMAIN last.res.res :
                    \E j \in DOMAIN Obtained.chunks :
                       last.res.res[i] = Obtained.chunks[j]

C15_Witness ==
    /\ last.op = "retrieve_relevant_chunks"
    /\ last.arg.resp.ok /\ last.arg.k = 3
    /\ Len(Obtained.chunks) = 2
    /\ last.res.res = <<ChunkText(1), ChunkText(2)>>
    /\ Obtained.chunks = <<ChunkText(2), ChunkText(1)>>

\* the store a process gets for an organization on a first call: a new
\* store, with the organization's snapshot loaded when there is one
StoreFor(org) ==
    IF PathExists(disk[StorePath(org)])
    THEN LoadInto(NewStore(DefaultDimension), disk[StorePath(org)]).store
    ELSE NewStore(DefaultDimension)

\* C16: the store that get_vector_store(org) returns, and that
\* retrieve_relevant_chunks(.., org) searches, holds the chunks and the
\* metadata of the snapshot of the organization named in the call,
\* whatever calls were made before
C16_StoreScopedToOrg ==
    last.op \in {"get_vector_store", "retrieve_relevant_chunks"}
       => /\ Obtained.chunks = StoreFor(last.arg.org).chunks
          /\ Obtained.metadata = StoreFor(last.arg.org).metadata

\* C17: however the first calls of get_vector_store for one organization
\* interleave, one store is constructed, load is called at most once and
\* the callers that have returned hold the same store
C17_InitialisedOnce ==
    /\ Len(objs) <= 1
    /\ loads <= 1
    /\ \A t, u \in Callers :
          (pc[t].at = "done" /\ pc[u].at = "done") => pc[t].ret = pc[u].ret

\* C28: after any sequence of add_documents, save and load calls the
\* declared dimension of the store is the dimension of its index
C28_DimensionAgrees == dimension = index.d

\* C24: a search that faiss accepts does not raise, and each triple it
\* returns is the chunk and the metadata at the position of a vector that
\* is in the index, with the distance from the query to that vector
C24_SearchResultsStored ==
    (/\ last.op = "search"
     /\ chunks # <<>>
     /\ IndexSearchAccepts(index, last.arg[1], Min(last.arg[2], Len(chunks))))
       => /\ last.out = "ok"
          /\ \A r \in DOMAIN last.res :
                \E i \in 1..ntotal(index) :
                   /\ i <= Len(chunks) /\ i <= Len(metadata)
                   /\ last.res[r] = <<chunks[i], metadata[i],
                                      L2Sqr(last.arg[1], index.vecs[i])>>

\* C27: a load that finds both files and fails while reading one of them
\* leaves the index, the chunks and the metadata as they were
C27_LoadAllOrNothing ==
    [][(last'.op = "load" /\ last'.out = "raise") => UNCHANGED store]_vars

\* the words of a chunk without the last one
Front(ws) == SubSeq(ws, 1, Len(ws) - 1)

\* C25: for 0 <= overlap < chunk_size, every chunk but the last is emitted
\* at the first threshold crossing: the accumulated length of its words
\* (each counted with one separator) is at least chunk_size, and without
\* its last word it is below chunk_size
C25_FirstCrossing ==
    (/\ last.op = "chunk_text"
     /\ 0 <= last.arg.overlap /\ last.arg.overlap < last.arg.chunk_size)
       => \A i \in 1..(Len(last.res) - 1) :
             /\ SumLen(ChunkWords(last.res)[i]) >= last.arg.chunk_size
             /\ SumLen(Front(ChunkWords(last.res)[i])) < last.arg.chunk_size

\* as Covers, each chunk moreover ending later in ws than the chunk before
\* it: it holds a word occurrence that no earlier chunk holds
RECURSIVE CoversNew(_, _, _, _, _)
CoversNew(ws, cws, i, p, q) ==
    IF i > Len(cws) THEN q = Len(ws)
    ELSE \E q2 \in (q + 1)..Len(ws) :
            LET p2 == q2 - Len(cws[i]) + 1
            IN  /\ p2 >= p /\ p2 <= q + 1
                /\ i = 1 => p2 = 1
                /\ SubSeq(ws, p2, q2) = cws[i]
                /\ CoversNew(ws, cws, i + 1, p2, q2)

\* C26: for 0 <= overlap < chunk_size, every chunk, the last included,
\* holds at least one word occurrence of the text that no earlier chunk
\* holds: no chunk is made only of the words carried over
C26_EveryChunkNew ==
    (/\ last.op = "chunk_text"
     /\ 0 <= last.arg.overlap /\ last.arg.overlap < last.arg.chunk_size)
       => CoversNew(Split(last.arg.text), ChunkWords(last.res), 1, 1, 0)

\* the directory of the organization holds a snapshot that load reads
\* and that holds chunks
NonEmptySnapshot(org) ==
    LET dir == disk[StorePath(org)]
    IN  /\ Found(dir)
        /\ PickleLoads(dir.data)
        /\ PickleLoad(dir.data).chunks # <<>>

\* C29: when the organization has a non-empty snapshot, no caller of
\* retrieve_relevant_chunks finds the shared store empty, however its call
\* interleaves with the first-use initialisation of get_vector_store
C29_NeverSeenEmpty ==
    \A t \in Callers :
        NonEmptySnapshot("sample_org") => pc[t].at # "no documents"

\* the file name and the ordinal that a metadata record of either
\* ingestion function gives
NameOf(m) == IF "filename" \in DOMAIN m THEN m.filename ELSE m.source

OrdinalOf(m) == IF "chunk_id" \in DOMAIN m THEN m.chunk_id ELSE m.chunk_index

\* an ingestion call whose embedder raised while a chunk was embedded
EmbeddingFailed(call) ==
    /\ ~call.arg.beh.ok
    /\ call.arg.beh.after < Len(call.res.chunks)

\* C21: the result of ingest_documents and of ingest_documents_local has
\* one metadata record per chunk, which names the file the chunk came from
\* and the chunk's ordinal within that file, counted from 0 for each file;
\* its embeddings are none or one per chunk, and none when embedding a
\* chunk failed
C21_ResultAligned ==
    (last.op \in IngestFunctions /\ last.out = "ok")
       => LET r == last.res
              files == last.arg.docs.files
          IN  /\ Len(r.metadata) = Len(r.chunks)
              /\ \A i \in DOMAIN r.chunks :
                    /\ \E j \in DOMAIN files :
                          /\ files[j].name = NameOf(r.metadata[i])
                          /\ files[j].content.ok
                          /\ OrdinalOf(r.metadata[i]) + 1
                                \in DOMAIN FileChunks(files[j].content.text)
                          /\ r.chunks[i] =
                                FileChunks(files[j].content.text)
                                   [OrdinalOf(r.metadata[i]) + 1]
                    /\ OrdinalOf(r.metadata[i]) =
                          IF i > 1 /\ NameOf(r.metadata[i - 1])
                                         = NameOf(r.metadata[i])
                          THEN OrdinalOf(r.metadata[i - 1]) + 1
                          ELSE 0
              /\ r.embeddings = <<>> \/ Len(r.embeddings) = Len(r.chunks)
              /\ EmbeddingFailed(last) => r.embeddings = <<>>

\* a call over two files of several chunks each whose second request to
\* the embedder raised
C21_Witness ==
    /\ last.op = "ingest_documents" /\ last.out = "ok"
    /\ Len(last.res.chunks) = 6
    /\ OrdinalOf(last.res.metadata[3]) = 2
    /\ OrdinalOf(last.res.metadata[4]) = 0
    /\ NameOf(last.res.metadata[4]) # NameOf(last.res.metadata[3])
    /\ last.arg.beh = EmbedderRaises(1)
    /\ last.res.embeddings = <<>>

\* C22: when extraction raises for a file of a directory of several, the
\* ingestion call returns, and its result holds every chunk of every other
\* file with a metadata record naming that file
C22_ExtractionIsolated ==
    LET files == last.arg.docs.files
    IN  (/\ last.op \in IngestFunctions
         /\ Len(files) >= 2
         /\ \E j \in DOMAIN files : ~files[j].content.ok)
           => /\ last.out = "ok"
              /\ \A j \in DOMAIN files :
                    files[j].content.ok
                       => \A n \in DOMAIN FileChunks(files[j].content.text) :
                             \E i \in DOMAIN last.res.chunks :
                                /\ last.res.chunks[i] =
                                      FileChunks(files[j].content.text)[n]
                                /\ NameOf(last.res.metadata[i]) = files[j].name
                                /\ OrdinalOf(last.res.metadata[i]) = n - 1

\* the chunks of the snapshot in a directory
SnapshotChunks(dir) ==
    IF Found(dir) /\ PickleLoads(dir.data) THEN PickleLoad(dir.data).chunks
    ELSE <<>>

\* C23: an ingestion command exits with code 0 when it saved a snapshot
\* that holds at least one chunk with its vector, and with another code
\* otherwise, also when the documents gave chunks and embedding failed
C23_ExitCode ==
    last.op \in Scripts
       => (last.res.code = 0
              <=> /\ last.res.saved
                  /\ SnapshotChunks(last.res.dir) # <<>>
                  /\ ReadIndex(last.res.dir.index).vecs # <<>>)

\* C30: a run in which the documents give chunks and embedding gives
\* nothing, for a collection whose directory holds a snapshot with chunks,
\* leaves the directory as it was
C30_FailedRunKeepsSnapshot ==
    [][(/\ last'.op \in Scripts
        /\ last'.res.result.chunks # <<>>
        /\ last'.res.result.embeddings = <<>>
        /\ SnapshotChunks(disk[ScriptStorePath(last'.op, last'.arg.org)])
              # <<>>)
          => disk' = disk]_vars

====
